---- MODULE Spec2Model ----
(***************************************************************************)
(* Model of the IFSC directory sync script (src/main.py): the pipeline     *)
(* main(), the ingestion loop insert_into_appwrite(), the state tracker    *)
(* (update_status, get_last_update_date, set_last_update_date), the        *)
(* scrapers and the notifier, run against a document store, a status page  *)
(* and a messaging channel whose calls may each fail.                      *)
(***************************************************************************)
EXTENDS Integers, Sequences, FiniteSets, Bags, TLC

\* ------------------------------------------------------------------ bounds
MaxDate == 2
MaxLinks == 2
MaxBatch == 2
MaxClock == 1

\* ------------------------------------------------------------ plain values
\* Python's None, as returned by the soft-failing readers (a date is >= 1).
None == 0

Dates == 1..MaxDate

\* Raw spreadsheet cell values: text, an integer cell, or pandas' NaN.
TextCell(s) == [s |-> s]
IntCell(n) == [n |-> n]
NanCell == [nan |-> TRUE]

Digit(d) ==
  CASE d = 0 -> "0" [] d = 1 -> "1" [] d = 2 -> "2" [] d = 3 -> "3"
    [] d = 4 -> "4" [] d = 5 -> "5" [] d = 6 -> "6" [] d = 7 -> "7"
    [] d = 8 -> "8" [] d = 9 -> "9"

RECURSIVE IntToStr(_)
IntToStr(n) == IF n < 10 THEN Digit(n) ELSE IntToStr(n \div 10) \o Digit(n % 10)

\* str(value) as applied to a cell by insert_into_appwrite.
Str(c) ==
  IF "s" \in DOMAIN c THEN c.s
  ELSE IF "n" \in DOMAIN c THEN IntToStr(c.n)
  ELSE "nan"

\* Faulty variant: record.get(key), without the default.
GetNoDefault(record, key) == IF key \in DOMAIN record THEN record[key] ELSE NanCell

\* record.get(key, '')
Get(record, key) == IF key \in DOMAIN record THEN record[key] ELSE TextCell("")

\* The nine fields of a stored document.
DocFields ==
  {"BANK", "IFSC", "BRANCH", "ADDRESS", "CITY1", "CITY2", "STATE", "STD_CODE", "PHONE"}

\* The spreadsheet column each document field is read from.
SourceKey(f) == IF f = "STD_CODE" THEN "STD CODE" ELSE f

\* document_data = {...} of insert_into_appwrite
DocumentData(record) == [f \in DocFields |-> Str(Get(record, SourceKey(f)))]

\* ------------------------------------------------------------ input records
FullRow(ifsc, bank) ==
  [c \in {"BANK", "IFSC", "BRANCH", "ADDRESS", "CITY1", "CITY2", "STATE", "STD CODE", "PHONE"} |->
     CASE c = "BANK" -> TextCell(bank)
       [] c = "IFSC" -> TextCell(ifsc)
       [] c = "STD CODE" -> IntCell(22)
       [] c = "CITY2" -> NanCell
       [] OTHER -> TextCell("x")]

Drop(record, key) == [c \in (DOMAIN record) \ {key} |-> record[c]]

\* Two rows with the same routing code and different fields (the second has no
\* PHONE column), and a row without a routing code.
RowA1 == FullRow("A", "P")
RowA2 == Drop(FullRow("A", "Q"), "PHONE")
RowNoKey == Drop(FullRow("B", "P"), "IFSC")

Rows == {RowA1, RowA2, RowNoKey}

RECURSIVE SeqsUpTo(_, _)
SeqsUpTo(S, n) ==
  IF n = 0 THEN {<<>>}
  ELSE LET shorter == SeqsUpTo(S, n - 1)
       IN shorter \cup {Append(q, x) : q \in {p \in shorter : Len(p) = n - 1}, x \in S}

Batches == SeqsUpTo(Rows, MaxBatch)

\* BASE_URL = 'https://rbidocs.rbi.org.in/rdocs/Content/DOCs/'
BASE_URL == "https://rbidocs.rbi.org.in/rdocs/Content/DOCs/"

\* The rows of the spreadsheet published under each download URL.
FileRows(link) ==
  IF link = BASE_URL \o "f1.xlsx" THEN <<RowA1, RowA2>> ELSE <<RowNoKey, RowA2>>

Range(q) == {q[i] : i \in 1..Len(q)}

Key(record) == DocumentData(record)["IFSC"]

KeysOf(batch) == {Key(r) : r \in Range(batch)}


\* ------------------------------------------------------------ status page
\* The freshness sentence of the status page for date d (a day of January 2024).
PageText(d) == "updated as on January " \o IntToStr(d) \o ", 2024"

\* A page without the phrase, and one whose phrase carries no parseable date.
NoPhrase == ""
BadPhrase == "updated as on soon"

PageTexts == {NoPhrase, BadPhrase} \cup {PageText(d) : d \in Dates}

\* An href is text cut into pieces: a "/" piece for each slash, an extension piece, and
\* name pieces that hold neither. An anchor without href, or with an empty one, is <<>>.
\* The hrefs tried: a.xlsx, /path/b.xlsx, c.txt, https://host/d.xlsx, none, e.xlsx/,
\* dir.xlsx/g.txt and .xlsx.
Hrefs ==
  {<<"a", ".xlsx">>,
   <<"/", "path", "/", "b", ".xlsx">>,
   <<"c", ".txt">>,
   <<"https:", "/", "/", "host", "/", "d", ".xlsx">>,
   <<>>,
   <<"e", ".xlsx", "/">>,
   <<"dir", ".xlsx", "/", "g", ".txt">>,
   <<".xlsx">>}

\* The anchors of a page, in page order.
AnchorLists == SeqsUpTo(Hrefs, MaxLinks)

\* The page lists its spreadsheets in a fixed order: the first n of f1.xlsx,
\* /path/f2.xlsx, f1.xlsx, ...
LinkAt(i) ==
  IF i % 2 = 1 THEN <<"f1", ".xlsx">> ELSE <<"/", "path", "/", "f2", ".xlsx">>

LinkLists == {[i \in 1..n |-> LinkAt(i)] : n \in 0..MaxLinks}

Pages == [text : PageTexts, links : LinkLists]

\* Outcomes of requests.get + raise_for_status.
FetchOutcomes == {"ok", "neterr", "httperr"}

\* re.search(r'(\w+ \d+, \d{4})') followed by strptime('%B %d, %Y'): the date the
\* text encodes, or None when either step raises.
ParseUpdateText(text) ==
  IF \E d \in Dates : PageText(d) = text
  THEN CHOOSE d \in Dates : PageText(d) = text
  ELSE None

\* get_update_date(url)
GetUpdateDate(fetch, text) ==
  IF fetch # "ok" THEN None
  ELSE IF text = NoPhrase THEN None
  ELSE ParseUpdateText(text)

\* href=lambda href: href and href.endswith('.xlsx')
EndsWithXlsx(href) == href # <<>> /\ href[Len(href)] = ".xlsx"

\* Faulty variant: the href is appended whole.
WholeHref(href) == href

\* link['href'].split('/')[-1]: what follows the last slash.
LastComponent(href) ==
  LET slashes == {i \in 1..Len(href) : href[i] = "/"}
  IN IF slashes = {} THEN href
     ELSE SubSeq(href, (CHOOSE i \in slashes : \A j \in slashes : j <= i) + 1, Len(href))

\* The text the pieces make up.
RECURSIVE Join(_)
Join(q) == IF q = <<>> THEN "" ELSE Head(q) \o Join(Tail(q))

\* get_excel_links(url)
GetExcelLinks(fetch, anchors) ==
  IF fetch = "ok"
  THEN LET links == SelectSeq(anchors, EndsWithXlsx)
       IN [i \in 1..Len(links) |-> BASE_URL \o Join(LastComponent(links[i]))]
  ELSE <<>>

\* Faulty variant: only the first row of the sheet is returned.
ProcessExcelFirstRowOnly(ok, link) ==
  IF ok THEN SubSeq(FileRows(link), 1, 1) ELSE <<>>

\* process_excel(excel_file)
ProcessExcel(ok, link) == IF ok THEN FileRows(link) ELSE <<>>

\* ------------------------------------------------------------ document store
RECURSIVE SumCopies(_, _)
SumCopies(S, st) ==
  IF S = {} THEN 0
  ELSE LET d == CHOOSE x \in S : TRUE IN CopiesIn(d, st) + SumCopies(S \ {d}, st)

\* Faulty variant: the query filters on BANK instead of IFSC.
ListTotalByBank(st, key) == SumCopies({d \in BagToSet(st) : d["BANK"] = key}, st)

\* existing_records['total'] of list_documents(queries=[Query.equal('IFSC', key)])
ListTotal(st, key) == SumCopies({d \in BagToSet(st) : d["IFSC"] = key}, st)

StoreKeys(st) == {d["IFSC"] : d \in BagToSet(st)}

\* Variant: the store holds one document per IFSC and drops a create of a second one
\* (an insert-if-absent).
CreateIfAbsent(st, doc) ==
  IF doc["IFSC"] \in StoreKeys(st) THEN st ELSE st (+) SetToBag({doc})

\* create_document(document_id='unique()', data=doc)
CreateDocument(st, doc) == st (+) SetToBag({doc})

\* ------------------------------------------------------------ status document
\* date.isoformat() of the midnight datetime of day d.
IsoFormat(d) ==
  "2024-01-" \o (IF d < 10 THEN "0" ELSE "") \o IntToStr(d) \o "T00:00:00"

\* A status document provisioned without a watermark.
NoWatermark == ""

Watermarks == {NoWatermark} \cup {IsoFormat(d) : d \in Dates}

\* The same instant as the store returns it from a datetime attribute, or as it was
\* provisioned: ISO text with a UTC offset.
IsoFormatUtc(d) == IsoFormat(d) \o "+00:00"

AwareWatermarks == {IsoFormatUtc(d) : d \in Dates}

\* An offset-aware datetime of day d (a naive one is d itself, d >= 1).
Aware(d) == 0 - d

IsAware(x) == x < 0

\* datetime.fromisoformat(text): a naive datetime, an offset-aware one when the text
\* carries an offset; None stands for the exception it raises.
FromIsoFormat(text) ==
  IF \E d \in Dates : IsoFormat(d) = text
  THEN CHOOSE d \in Dates : IsoFormat(d) = text
  ELSE IF \E d \in Dates : IsoFormatUtc(d) = text
  THEN Aware(CHOOSE d \in Dates : IsoFormatUtc(d) = text)
  ELSE None

\* Faulty variant: the write stamps last_updated and leaves the status out.
UpdateStatusStampOnly(doc, status, t, ok) ==
  IF ok THEN [doc EXCEPT !.last_updated = t] ELSE doc

\* update_status(status)
UpdateStatus(doc, status, t, ok) ==
  IF ok THEN [doc EXCEPT !.status = status, !.last_updated = t] ELSE doc

\* Faulty variant: the watermark is never read back.
GetLastUpdateDateNoParse(doc, ok) == None

\* get_last_update_date()
GetLastUpdateDate(doc, ok) ==
  IF ok THEN FromIsoFormat(doc.last_update_date) ELSE None

\* Faulty variant: the write replaces the document instead of merging one field into it.
SetLastUpdateDateReplace(doc, date, ok) ==
  IF ok THEN [status |-> "", last_updated |-> 0, last_update_date |-> IsoFormat(date)]
  ELSE doc

\* set_last_update_date(date)
SetLastUpdateDate(doc, date, ok) ==
  IF ok THEN [doc EXCEPT !.last_update_date = IsoFormat(date)] ELSE doc

\* Faulty variants of the test of line 169: `>=` for `>`, and no test of the scraped date.
IsNewerOrEqual(cur, last) == cur # None /\ (last = None \/ cur >= last)

IsNewerNoNoneCheck(cur, last) == last = None \/ cur > last

\* if current_update_date and (not last_update_date or current_update_date > last_update_date)
IsNewer(cur, last) == cur # None /\ (last = None \/ cur > last)

\* The `>` of line 169 is evaluated when both dates are there; between the naive scraped
\* date and an offset-aware watermark it raises TypeError, outside any try block.
Raises169(cur, last) == cur # None /\ last # None /\ IsAware(last)


\* ------------------------------------------------------------------- state
VARIABLES
  store,                \* the collection's stored documents (a bag: ids are store-assigned)
  statusDoc,            \* the Status Document: status, last_updated, last_update_date
  now,                  \* the last reading of datetime.now()
  page,                 \* the status page: its freshness text and its .xlsx links
  pc,                   \* the statement of main / insert_into_appwrite to run next
  current_update_date,  \* locals of main
  last_update_date,
  excel_links,
  li,                   \* position of `link` in excel_links
  new_records,
  data,                 \* argument of insert_into_appwrite
  ri,                   \* position of `record` in data
  retpc,                \* where insert_into_appwrite returns to
  msgs,                 \* send_telegram_message attempts of the current run, in order
  faults,               \* kinds of external calls that failed in the current run
  runStore,             \* the store when the current run began
  runWm,                \* the persisted watermark when the current run began
  setCalled,            \* set_last_update_date was called in the current run
  statusOk,             \* the last update_status call wrote the Status Document
  fetched,              \* download_excel outcome per link visited, in order
  insBefore,            \* the store when the current insert_into_appwrite call began
  rlog,                 \* per record of the current call: its key, whether the key was
                        \* absent from the store, and what happened
  lastCall,             \* the insert_into_appwrite call that has just returned
  firstCall,            \* the first of two direct calls on the same batch
  prevPartial,          \* the previous run saw a newer date, recorded it, and lost a
                        \* file or a record
  twin,                 \* which run of a compared pair of runs is under way, if any
  oracle,               \* per call site of the first run of the pair: the result of its
                        \* external call (sends excepted)
  dropped,              \* some delivery of the current run of the pair failed
  firstRun,             \* the first run of the pair: the Status Document it began on,
                        \* what it ended with, and whether it lost a delivery
  other                 \* the frame of a second insert_into_appwrite invocation that
                        \* runs at the same time: its position, batch, counter and log

vars ==
  <<store, statusDoc, now, page, pc, current_update_date, last_update_date, excel_links,
    li, new_records, data, ri, retpc, msgs, faults, runStore, runWm, setCalled, statusOk,
    fetched, insBefore, rlog, lastCall, firstCall, prevPartial, twin, oracle, dropped,
    firstRun, other>>

env == <<statusDoc, now, page, statusOk>>
locals == <<current_update_date, last_update_date, excel_links, li>>
insLocals == <<data, ri, retpc, insBefore, rlog>>
runHist == <<runStore, runWm, setCalled, fetched>>
pairVars == <<twin, oracle, dropped, firstRun>>
pairRest == <<twin, dropped, firstRun>>

NoCall ==
  [data |-> <<>>, before |-> EmptyBag, after |-> EmptyBag, ret |-> 0, log |-> <<>>,
   returned |-> FALSE]

NoOther == [pc |-> "idle", data |-> <<>>, ri |-> 0, new_records |-> 0, log |-> <<>>]

NoRun ==
  [doc |-> [status |-> "idle", last_updated |-> 0, last_update_date |-> ""],
   store |-> EmptyBag, wm |-> "", status |-> "idle", dropped |-> FALSE, ended |-> FALSE]

\* The state when the process starts, the status page being one of `pages` and the
\* provisioned watermark one of `watermarks`.
InitWith(pages, watermarks) ==
  /\ store = EmptyBag
  /\ statusDoc \in [status : {"idle"}, last_updated : {0}, last_update_date : watermarks]
  /\ now = 0
  /\ page \in pages
  /\ pc = "idle"
  /\ current_update_date = None
  /\ last_update_date = None
  /\ excel_links = <<>>
  /\ li = 0
  /\ new_records = 0
  /\ data = <<>>
  /\ ri = 0
  /\ retpc = "idle"
  /\ msgs = <<>>
  /\ faults = {}
  /\ runStore = EmptyBag
  /\ runWm = NoWatermark
  /\ setCalled = FALSE
  /\ statusOk = TRUE
  /\ fetched = <<>>
  /\ insBefore = EmptyBag
  /\ rlog = <<>>
  /\ lastCall = NoCall
  /\ firstCall = NoCall
  /\ prevPartial = FALSE
  /\ oracle = {}
  /\ dropped = FALSE
  /\ firstRun = NoRun
  /\ other = NoOther

InitOn(pages) == InitWith(pages, Watermarks) /\ twin = "off"

Init == InitOn({[text |-> NoPhrase, links |-> <<>>]})

\* datetime.now(): every reading is later than the one before; readings from
\* MaxClock on are not told apart.
Clock(t) == IF t < MaxClock THEN t + 1 ELSE MaxClock

\* send_telegram_message(message): the attempt is made; whether it is delivered (ok)
\* changes nothing but the log line written.
Send(kind, link, ok) ==
  /\ msgs' = Append(msgs, [kind |-> kind, link |-> link])
  /\ dropped' = IF twin = "off" THEN dropped ELSE (dropped \/ ~ok)

\* Faulty variant: a delivery failure is not caught and main's handler skips to the
\* final status write.
AfterSendAbort(to, ok) == IF ok THEN to ELSE "L194"

\* Lines 48-49: the exception of a failed delivery is caught and logged;
\* send_telegram_message returns to the statement that follows the call.
AfterSend(to, ok) == to

\* The result `out` of the external call made at this statement (for this link and this
\* record). In the second run of a compared pair the call gives the result it gave in
\* the first run; in the first run the result is recorded.
Outcome(ok) == IF ok THEN "ok" ELSE "fail"

Sees(out) ==
  /\ twin = "second" =>
       \A e \in oracle : (e.at = pc /\ e.li = li /\ e.ri = ri) => e.out = out
  /\ oracle' = IF twin = "first"
               THEN oracle \cup {[at |-> pc, li |-> li, ri |-> ri, out |-> out]}
               ELSE oracle

\* ------------------------------------------------------ insert_into_appwrite
\* for record in data: the next record, or the return statement.
ForRecord(i, batch) == IF i <= Len(batch) THEN "I108" ELSE "I124"

\* Faulty variant: the try block encloses the loop, so an exception ends the batch.
AfterExceptionAbort(i, batch) == "I124"

\* except Exception: log, then go on with the next record.
AfterException(i, batch) == ForRecord(i + 1, batch)

\* Faulty variant: the existence test is dropped.
ShouldCreateAlways(total) == TRUE

\* if existing_records['total'] == 0
ShouldCreate(total) == total = 0

\* Faulty variant: the counter is incremented before create_document is called.
CountedOnFailure(n, created) == n + 1

\* new_records += 1, reached only when create_document has returned
Counted(n, created) == IF created THEN n + 1 ELSE n

\* Faulty variant: a record whose key is stored overwrites the stored document.
WhenExistsUpdate(st, doc) ==
  LET old == {d \in BagToSet(st) : d["IFSC"] = doc["IFSC"]}
  IN [d \in (BagToSet(st) \ old) |-> st[d]] (+) SetToBag({doc})

\* Line 114 has no else branch: when the lookup finds the key, no store call is made.
WhenExists(st, doc) == st

KeyAbsent(st, key) == key \notin StoreKeys(st)

LogEntry(st, key, res) == [key |-> key, absent |-> KeyAbsent(st, key), res |-> res]

Failures == {"lookup failed", "create failed"}

\* insert_into_appwrite(batch) is entered.
EnterInsert(batch, ret) ==
  /\ data' = batch
  /\ ri' = 1
  /\ new_records' = 0
  /\ retpc' = ret
  /\ insBefore' = store
  /\ rlog' = <<>>
  /\ lastCall' = NoCall
  /\ pc' = ForRecord(1, batch)

\* Lines 96-114: build document_data, list_documents, test the total.
InsertLookup ==
  /\ pc = "I108"
  /\ LET key == DocumentData(data[ri])["IFSC"]
     IN \E ok \in BOOLEAN :
          /\ Sees(Outcome(ok))
          /\ IF ~ok
             THEN /\ rlog' = Append(rlog, LogEntry(store, key, "lookup failed"))
                  /\ faults' = faults \cup {"lookup"}
                  /\ ri' = ri + 1
                  /\ pc' = AfterException(ri, data)
                  /\ UNCHANGED store
             ELSE IF ShouldCreate(ListTotal(store, key))
             THEN /\ pc' = "I115"
                  /\ UNCHANGED <<store, rlog, faults, ri>>
             ELSE /\ store' = WhenExists(store, DocumentData(data[ri]))
                  /\ rlog' = Append(rlog, LogEntry(store, key, "exists"))
                  /\ ri' = ri + 1
                  /\ pc' = ForRecord(ri + 1, data)
                  /\ UNCHANGED faults
  /\ UNCHANGED <<env, locals, new_records, data, retpc, insBefore, msgs, runHist,
                 lastCall, firstCall, prevPartial, pairRest, other>>

\* Lines 115-121: create_document, new_records += 1.
InsertCreate ==
  /\ pc = "I115"
  /\ LET doc == DocumentData(data[ri])
     IN \E ok \in BOOLEAN :
          /\ Sees(Outcome(ok))
          /\ store' = IF ok THEN CreateDocument(store, doc) ELSE store
          /\ new_records' = Counted(new_records, ok)
          /\ rlog' = Append(rlog, LogEntry(store, doc["IFSC"],
                                           IF ok THEN "inserted" ELSE "create failed"))
          /\ faults' = IF ok THEN faults ELSE faults \cup {"create"}
          /\ ri' = ri + 1
          /\ pc' = IF ok THEN ForRecord(ri + 1, data) ELSE AfterException(ri, data)
  /\ UNCHANGED <<env, locals, data, retpc, insBefore, msgs, runHist, lastCall, firstCall,
                 prevPartial, pairRest, other>>

\* Line 124: return new_records; the call's frame is gone.
InsertReturn ==
  /\ pc = "I124"
  /\ pc' = retpc
  /\ lastCall' = [data |-> data, before |-> insBefore, after |-> store, ret |-> new_records,
                  log |-> rlog, returned |-> TRUE]
  /\ data' = <<>>
  /\ ri' = 0
  /\ retpc' = "idle"
  /\ insBefore' = EmptyBag
  /\ rlog' = <<>>
  /\ UNCHANGED <<store, env, locals, new_records, msgs, faults, runHist, firstCall,
                 prevPartial, pairVars, other>>

\* A direct call insert_into_appwrite(batch), outside any run of main.
InsertCall ==
  /\ pc = "idle"
  /\ \E batch \in Batches : EnterInsert(batch, "called")
  /\ prevPartial' = FALSE
  /\ UNCHANGED <<store, env, locals, msgs, faults, runHist, firstCall, pairVars, other>>

\* The direct caller calls again on the identical batch.
CallAgain ==
  /\ pc = "called"
  /\ firstCall = NoCall
  /\ firstCall' = lastCall
  /\ EnterInsert(lastCall.data, "called")
  /\ UNCHANGED <<store, env, locals, msgs, faults, runHist, prevPartial, pairVars, other>>

\* The direct caller is done with the result.
CallDone ==
  /\ pc = "called"
  /\ pc' = "idle"
  /\ new_records' = 0
  /\ faults' = {}
  /\ lastCall' = NoCall
  /\ firstCall' = NoCall
  /\ UNCHANGED <<store, env, locals, insLocals, msgs, runHist, prevPartial, pairVars, other>>


\* A second invocation insert_into_appwrite(batch), on one record, is entered while the
\* first worker's invocation is under way.
OtherCall ==
  /\ other.pc = "idle"
  /\ pc \in {"I108", "I115", "I124"}
  /\ \E batch \in {<<r>> : r \in Rows} :
       other' = [pc |-> ForRecord(1, batch), data |-> batch, ri |-> 1, new_records |-> 0,
                 log |-> <<>>]
  /\ UNCHANGED <<store, env, pc, locals, new_records, insLocals, msgs, faults, runHist,
                 lastCall, firstCall, prevPartial, pairVars>>

\* Lines 96-114 in the second invocation.
OtherLookup ==
  /\ other.pc = "I108"
  /\ LET doc == DocumentData(other.data[other.ri])
         key == doc["IFSC"]
     IN \E ok \in BOOLEAN :
          IF ~ok
          THEN /\ other' = [other EXCEPT
                              !.log = Append(@, LogEntry(store, key, "lookup failed")),
                              !.ri = @ + 1,
                              !.pc = AfterException(other.ri, other.data)]
               /\ UNCHANGED store
          ELSE IF ShouldCreate(ListTotal(store, key))
          THEN /\ other' = [other EXCEPT !.pc = "I115"]
               /\ UNCHANGED store
          ELSE /\ store' = WhenExists(store, doc)
               /\ other' = [other EXCEPT
                              !.log = Append(@, LogEntry(store, key, "exists")),
                              !.ri = @ + 1,
                              !.pc = ForRecord(other.ri + 1, other.data)]
  /\ UNCHANGED <<env, pc, locals, new_records, insLocals, msgs, faults, runHist, lastCall,
                 firstCall, prevPartial, pairVars>>

\* Lines 115-121 in the second invocation.
OtherCreate ==
  /\ other.pc = "I115"
  /\ LET doc == DocumentData(other.data[other.ri])
     IN \E ok \in BOOLEAN :
          /\ store' = IF ok THEN CreateDocument(store, doc) ELSE store
          /\ other' = [other EXCEPT
                         !.new_records = Counted(@, ok),
                         !.log = Append(@, LogEntry(store, doc["IFSC"],
                                                    IF ok THEN "inserted" ELSE "create failed")),
                         !.ri = @ + 1,
                         !.pc = IF ok THEN ForRecord(other.ri + 1, other.data)
                                ELSE AfterException(other.ri, other.data)]
  /\ UNCHANGED <<env, pc, locals, new_records, insLocals, msgs, faults, runHist, lastCall,
                 firstCall, prevPartial, pairVars>>

\* Line 124 in the second invocation: its frame is gone.
OtherReturn ==
  /\ other.pc = "I124"
  /\ other' = NoOther
  /\ UNCHANGED <<store, env, pc, locals, new_records, insLocals, msgs, faults, runHist,
                 lastCall, firstCall, prevPartial, pairVars>>

\* A direct call get_excel_links(MAIN_URL), outside any run of main.
LinksCall ==
  /\ pc = "idle"
  /\ \E fetch \in FetchOutcomes :
       /\ excel_links' = GetExcelLinks(fetch, page.links)
       /\ faults' = IF fetch = "ok" THEN {} ELSE {"links"}
  /\ pc' = "linked"
  /\ UNCHANGED <<store, env, current_update_date, last_update_date, li, new_records,
                 insLocals, msgs, runHist, lastCall, firstCall, prevPartial, pairVars, other>>

\* The direct caller is done with the links.
LinksDone ==
  /\ pc = "linked"
  /\ pc' = "idle"
  /\ excel_links' = <<>>
  /\ faults' = {}
  /\ UNCHANGED <<store, env, current_update_date, last_update_date, li, new_records,
                 insLocals, msgs, runHist, lastCall, firstCall, prevPartial, pairVars, other>>

\* ---------------------------------------------------------------------- main
\* Faulty variant: the statement after the loop is left out.
ForLinkNoSummary(i, links) == IF i <= Len(links) THEN "L176" ELSE "L194"

\* for link in excel_links: the next link, or the statement after the loop.
ForLink(i, links) == IF i <= Len(links) THEN "L176" ELSE "L190"

\* A statement of main that only sends a message.
SendStep(at, kind, link, to) ==
  /\ pc = at
  /\ \E ok \in BOOLEAN :
       /\ Send(kind, link, ok)
       /\ pc' = AfterSend(to, ok)
  /\ lastCall' = NoCall
  /\ UNCHANGED <<store, env, locals, new_records, insLocals, faults, runHist, firstCall,
                 prevPartial, twin, oracle, firstRun, other>>

\* Line 163, on entry to main: update_status('running').
MainStart ==
  /\ pc = "idle"
  /\ \E ok \in BOOLEAN :
       /\ Sees(Outcome(ok))
       /\ statusDoc' = UpdateStatus(statusDoc, "running", Clock(now), ok)
       /\ statusOk' = ok
       /\ faults' = IF ok THEN {} ELSE {"status"}
  /\ firstRun' = IF twin = "first" THEN [NoRun EXCEPT !.doc = statusDoc] ELSE firstRun
  /\ now' = Clock(now)
  /\ runStore' = store
  /\ runWm' = statusDoc.last_update_date
  /\ setCalled' = FALSE
  /\ fetched' = <<>>
  /\ msgs' = <<>>
  /\ pc' = "L164"
  /\ UNCHANGED <<store, page, locals, new_records, insLocals, lastCall, firstCall,
                 prevPartial, twin, dropped, other>>

\* Line 164: send_telegram_message("Script started running.").
SendStarted == SendStep("L164", "Script started running.", "", "L166")

\* Line 166: current_update_date = get_update_date(MAIN_URL).
ReadUpdateDate ==
  /\ pc = "L166"
  /\ \E fetch \in FetchOutcomes :
       /\ Sees(fetch)
       /\ current_update_date' = GetUpdateDate(fetch, page.text)
       /\ faults' = IF GetUpdateDate(fetch, page.text) = None
                    THEN faults \cup {"date"} ELSE faults
  /\ pc' = "L167"
  /\ UNCHANGED <<store, env, last_update_date, excel_links, li, new_records, insLocals,
                 msgs, runHist, lastCall, firstCall, prevPartial, pairRest, other>>

\* Lines 167-169: last_update_date = get_last_update_date(), then the test of line 169.
ReadWatermark ==
  /\ pc = "L167"
  /\ \E ok \in BOOLEAN :
       /\ Sees(Outcome(ok))
       /\ last_update_date' = GetLastUpdateDate(statusDoc, ok)
       /\ faults' = IF ok THEN faults ELSE faults \cup {"watermark read"}
       /\ pc' = IF Raises169(current_update_date, GetLastUpdateDate(statusDoc, ok))
                THEN "raised"
                ELSE IF IsNewer(current_update_date, GetLastUpdateDate(statusDoc, ok))
                THEN "L170" ELSE "L192"
  /\ UNCHANGED <<store, env, current_update_date, excel_links, li, new_records, insLocals,
                 msgs, runHist, lastCall, firstCall, prevPartial, pairRest, other>>

\* Line 170: send_telegram_message("New update found: ...").
SendNewUpdate == SendStep("L170", "New update found", "", "L171")

\* Line 171: set_last_update_date(current_update_date).
WriteWatermark ==
  /\ pc = "L171"
  /\ \E ok \in BOOLEAN :
       /\ Sees(Outcome(ok))
       /\ statusDoc' = SetLastUpdateDate(statusDoc, current_update_date, ok)
       /\ faults' = IF ok THEN faults ELSE faults \cup {"watermark write"}
  /\ setCalled' = TRUE
  /\ pc' = "L173"
  /\ UNCHANGED <<store, now, page, statusOk, locals, new_records, insLocals, msgs,
                 runStore, runWm, fetched, lastCall, firstCall, prevPartial, pairRest, other>>

\* Lines 173-175: excel_links = get_excel_links(MAIN_URL), then the loop's first test.
ReadLinks ==
  /\ pc = "L173"
  /\ \E fetch \in FetchOutcomes :
       /\ Sees(fetch)
       /\ excel_links' = GetExcelLinks(fetch, page.links)
       /\ faults' = IF fetch = "ok" THEN faults ELSE faults \cup {"links"}
       /\ pc' = ForLink(1, GetExcelLinks(fetch, page.links))
  /\ li' = 1
  /\ UNCHANGED <<store, env, current_update_date, last_update_date, new_records, insLocals,
                 msgs, runHist, lastCall, firstCall, prevPartial, pairRest, other>>

\* Line 176: send_telegram_message("Processing file: ...").
SendProcessing == SendStep("L176", "Processing file", excel_links[li], "L177")

\* Lines 177-179: excel_file = download_excel(link), then `if excel_file`.
Download ==
  /\ pc = "L177"
  /\ \E fetch \in FetchOutcomes :
       /\ Sees(fetch)
       /\ fetched' = Append(fetched, fetch = "ok")
       /\ faults' = IF fetch = "ok" THEN faults ELSE faults \cup {"download"}
       /\ pc' = IF fetch = "ok" THEN "L180" ELSE "L186"
  /\ UNCHANGED <<store, env, locals, new_records, insLocals, msgs, runStore, runWm,
                 setCalled, lastCall, firstCall, prevPartial, pairRest, other>>

\* Lines 180-182: data = process_excel(excel_file); insert_into_appwrite(data) is entered.
ParseAndInsert ==
  /\ pc = "L180"
  /\ \E ok \in BOOLEAN :
       /\ Sees(Outcome(ok))
       /\ EnterInsert(ProcessExcel(ok, excel_links[li]), "L184")
       /\ faults' = IF ok THEN faults ELSE faults \cup {"parse"}
  /\ UNCHANGED <<store, env, locals, msgs, runHist, firstCall, prevPartial, pairRest, other>>

\* Line 184: send_telegram_message("Completed processing ... New records added: n").
SendCompleted == SendStep("L184", "Completed processing", excel_links[li], "L188")

\* Line 186: send_telegram_message("Failed to download file: ...").
SendFailed == SendStep("L186", "Failed to download", excel_links[li], "L188")

\* Line 188: time.sleep(2), then the loop's next test.
Sleep ==
  /\ pc = "L188"
  /\ li' = li + 1
  /\ pc' = ForLink(li + 1, excel_links)
  /\ UNCHANGED <<store, env, current_update_date, last_update_date, excel_links,
                 new_records, insLocals, msgs, faults, runHist, lastCall, firstCall,
                 prevPartial, pairVars, other>>

\* Line 190: send_telegram_message("All files processed.").
SendAllProcessed == SendStep("L190", "All files processed.", "", "L194")

\* Line 192: send_telegram_message("No new updates as of ...").
SendNoUpdates == SendStep("L192", "No new updates", "", "L194")

\* Line 194: update_status('idle').
MainIdle ==
  /\ pc = "L194"
  /\ \E ok \in BOOLEAN :
       /\ Sees(Outcome(ok))
       /\ statusDoc' = UpdateStatus(statusDoc, "idle", Clock(now), ok)
       /\ statusOk' = ok
       /\ faults' = IF ok THEN faults ELSE faults \cup {"status"}
  /\ now' = Clock(now)
  /\ pc' = "L195"
  /\ UNCHANGED <<store, page, locals, new_records, insLocals, msgs, runHist, lastCall,
                 firstCall, prevPartial, pairRest, other>>

\* Line 195: send_telegram_message("Script finished running."); main has run to its end.
SendFinished == SendStep("L195", "Script finished running.", "", "done")

\* A file or a record of the run was lost to a failed call, and no other call failed.
Lost(f) == f # {} /\ f \subseteq {"download", "lookup", "create"}

\* main returns to the scheduler loop (lines 206-209): its locals are gone.
MainReturn ==
  /\ pc = "done"
  /\ pc' = "idle"
  /\ prevPartial' = (setCalled /\ Lost(faults))
  /\ current_update_date' = None
  /\ last_update_date' = None
  /\ excel_links' = <<>>
  /\ li' = 0
  /\ new_records' = 0
  /\ msgs' = <<>>
  /\ faults' = {}
  /\ runStore' = EmptyBag
  /\ runWm' = NoWatermark
  /\ setCalled' = FALSE
  /\ fetched' = <<>>
  /\ twin' = "off"
  /\ oracle' = {}
  /\ dropped' = FALSE
  /\ firstRun' = NoRun
  /\ UNCHANGED <<store, env, insLocals, lastCall, firstCall, other>>

\* The second run of a compared pair is set up: the world is put back to where the first
\* run began, and every external call but the sends will give the result it gave then.
RunAgain ==
  /\ pc = "done"
  /\ twin = "first"
  /\ twin' = "second"
  /\ firstRun' = [firstRun EXCEPT !.store = store, !.wm = statusDoc.last_update_date,
                                  !.status = statusDoc.status, !.dropped = dropped,
                                  !.ended = TRUE]
  /\ store' = runStore
  /\ statusDoc' = firstRun.doc
  /\ statusOk' = TRUE
  /\ dropped' = FALSE
  /\ pc' = "idle"
  /\ prevPartial' = FALSE
  /\ current_update_date' = None
  /\ last_update_date' = None
  /\ excel_links' = <<>>
  /\ li' = 0
  /\ new_records' = 0
  /\ msgs' = <<>>
  /\ faults' = {}
  /\ runStore' = EmptyBag
  /\ runWm' = NoWatermark
  /\ setCalled' = FALSE
  /\ fetched' = <<>>
  /\ UNCHANGED <<now, page, insLocals, lastCall, firstCall, oracle, other>>

\* The publisher replaces the status page between two runs.
PageChange ==
  /\ pc = "idle"
  /\ \E p \in Pages \ {page} : page' = p
  /\ prevPartial' = FALSE
  /\ UNCHANGED <<store, statusDoc, now, statusOk, pc, locals, new_records, insLocals,
                 msgs, faults, runHist, lastCall, firstCall, pairVars, other>>

\* The statements of one run of main, the ingestion it calls included.
Run ==
  \/ MainStart \/ SendStarted \/ ReadUpdateDate \/ ReadWatermark \/ SendNewUpdate
  \/ WriteWatermark \/ ReadLinks \/ SendProcessing \/ Download \/ ParseAndInsert
  \/ InsertLookup \/ InsertCreate \/ InsertReturn
  \/ SendCompleted \/ SendFailed \/ Sleep \/ SendAllProcessed \/ SendNoUpdates
  \/ MainIdle \/ SendFinished \/ MainReturn

Next == Run \/ PageChange

\* The scheduled process: runs of main, one after the other, against a page that the
\* publisher changes between runs.
Spec == Init /\ [][Next]_vars

\* Direct calls only, each batch possibly ingested twice in a row.
InitCalls ==
  /\ Init
  /\ statusDoc.last_update_date = NoWatermark

NextCalls ==
  \/ InsertCall \/ InsertLookup \/ InsertCreate \/ InsertReturn \/ CallAgain \/ CallDone

SpecCalls == InitCalls /\ [][NextCalls]_vars

\* A page that carries the latest date and the longest list of files.
RichPage == [text |-> PageText(MaxDate), links |-> [i \in 1..MaxLinks |-> LinkAt(i)]]

\* Runs of main and direct calls on any batch, one after the other in any order, against
\* that page.
InitMixed == InitOn({RichPage})

NextMixed == Run \/ InsertCall \/ CallDone

SpecMixed == InitMixed /\ [][NextMixed]_vars

\* Runs of main, one after the other, on the same page, the provisioned watermark being
\* naive or offset-aware ISO text. A run that raises ends the process (lines 206-209 do
\* not catch): no step follows pc = "raised".
InitAware == InitWith({RichPage}, Watermarks \cup AwareWatermarks) /\ twin = "off"

SpecAware == InitAware /\ [][Run]_vars

\* Pairs of runs of main compared with each other: the first run from the start of the
\* process, the second from the same store and Status Document, on a page with one file.
OneFilePage == [text |-> PageText(MaxDate), links |-> <<LinkAt(1)>>]

InitPair == InitWith({OneFilePage}, Watermarks) /\ twin = "first"

NextPair == Run \/ RunAgain

SpecPair == InitPair /\ [][NextPair]_vars

\* Two invocations of insert_into_appwrite at the same time, their store calls
\* interleaved in any order.
NextRace ==
  \/ InsertCall \/ InsertLookup \/ InsertCreate \/ InsertReturn
  \/ OtherCall \/ OtherLookup \/ OtherCreate \/ OtherReturn

SpecRace == InitCalls /\ [][NextRace]_vars

\* Direct calls of get_excel_links on a page with any anchors.
InitLinks == InitOn([text : {NoPhrase}, links : AnchorLists])

NextLinks == LinksCall \/ LinksDone

SpecLinks == InitLinks /\ [][NextLinks]_vars

\* ------------------------------------------------------------------ claims
MainPcs ==
  {"L164", "L166", "L167", "L170", "L171", "L173", "L176", "L177", "L180", "L184", "L186",
   "L188", "L190", "L192", "L194", "L195", "done"}

InsertPcs == {"I108", "I115", "I124"}

\* A run of main is in progress (the ingestion it calls included).
InMain == pc \in MainPcs \/ (pc \in InsertPcs /\ retpc = "L184")

Count(q, kind, link) ==
  Cardinality({i \in 1..Len(q) : q[i] = [kind |-> kind, link |-> link]})

Kinds(q) == {q[i].kind : i \in 1..Len(q)}

Failed(log) == \E i \in 1..Len(log) : log[i].res \in Failures

\* C1: the store never holds two documents with the same IFSC value, whatever runs of
\* main and direct calls of insert_into_appwrite came before, one after the other, on
\* whatever batches, and whichever calls failed.
C1_OneDocumentPerKey ==
  /\ \A d \in BagToSet(store) : CopiesIn(d, store) = 1
  /\ \A d1, d2 \in BagToSet(store) : d1["IFSC"] = d2["IFSC"] => d1 = d2

\* A run that began on a store already filled has just ingested a file that repeats a
\* routing code: the first record's create failed and the second record was stored.
C1_Witness ==
  /\ pc = "L184"
  /\ runStore # EmptyBag
  /\ Len(lastCall.log) = 2
  /\ lastCall.log[1].key = lastCall.log[2].key
  /\ lastCall.log[1].res = "create failed"
  /\ lastCall.log[2].res = "inserted"
  /\ BagCardinality(store) = 2

\* The batch of call c holds no key the store held before the call.
Fresh(c) == KeysOf(c.data) \cap StoreKeys(c.before) = {}

\* Call c added exactly one document per distinct key of its batch.
InsertedOnce(c) ==
  /\ \A k \in KeysOf(c.data) :
       Cardinality({d \in BagToSet(c.after) : d["IFSC"] = k}) = 1
  /\ \A d \in BagToSet(c.after) : CopiesIn(d, c.after) = 1
  /\ BagCardinality(c.after) = BagCardinality(c.before) + Cardinality(KeysOf(c.data))

SecondRunDone == pc = "called" /\ firstCall.returned /\ lastCall.returned

PageStored ==
  LET links == GetExcelLinks("ok", page.links)
  IN \A i \in 1..Len(links) : KeysOf(FileRows(links[i])) \subseteq StoreKeys(store)

\* C3 as stated: when the previous run saw a newer date and lost a file or a record, a
\* run against the unchanged page in which every call succeeds ends with the lost
\* records stored.
C3_NextRunCorrects ==
  (pc = "done" /\ prevPartial /\ faults = {}) => PageStored

\* C4 as stated: set_last_update_date is called only if the scraped date is strictly
\* later than the watermark persisted in the store.
C4_Original ==
  setCalled =>
    /\ current_update_date # None
    /\ FromIsoFormat(runWm) # None => current_update_date > FromIsoFormat(runWm)

\* C4 as amended: set_last_update_date is called only if a date was scraped and either
\* get_last_update_date returned None (the read failed, or no parseable watermark is
\* persisted) or the scraped date is strictly later than the persisted watermark.
C4_WrittenOnlyWhenNewer ==
  setCalled =>
    /\ current_update_date # None
    /\ \/ "watermark read" \in faults
       \/ FromIsoFormat(runWm) = None
       \/ current_update_date > FromIsoFormat(runWm)

\* The watermark was read and the scraped date is strictly later: it is being written.
C4_Witness ==
  /\ pc = "L173"
  /\ setCalled
  /\ "watermark read" \notin faults
  /\ FromIsoFormat(runWm) # None
  /\ current_update_date > FromIsoFormat(runWm)
  /\ statusDoc.last_update_date = IsoFormat(current_update_date)


\* The run is past line 166 and get_update_date returned None.
NoDateScraped == InMain /\ pc \notin {"L164", "L166"} /\ current_update_date = None

\* C5: every failure of the Update Detector yields None, and a run in which it returned
\* None downloads nothing, creates nothing, does not write the watermark and sends the
\* 'No new updates' notification.
C5_NoDateSkips ==
  /\ \A fetch \in FetchOutcomes, text \in PageTexts :
       (fetch # "ok" \/ text \in {NoPhrase, BadPhrase}) => GetUpdateDate(fetch, text) = None
  /\ NoDateScraped =>
       /\ pc \in {"L167", "L192", "L194", "L195", "done"}
       /\ fetched = <<>>
       /\ store = runStore
       /\ ~setCalled
       /\ statusDoc.last_update_date = runWm
       /\ pc \in {"L194", "L195", "done"} =>
            /\ Count(msgs, "No new updates", "") = 1
            /\ Kinds(msgs) \subseteq
                 {"Script started running.", "No new updates", "Script finished running."}

\* A run has ended without a scraped date although the page carries a date later than
\* the watermark and lists files whose records are not stored.
C5_Witness ==
  /\ pc = "done"
  /\ current_update_date = None
  /\ ParseUpdateText(page.text) # None
  /\ FromIsoFormat(runWm) # None
  /\ ParseUpdateText(page.text) > FromIsoFormat(runWm)
  /\ page.links # <<>>
  /\ ~PageStored

\* What C6 promises of a finished run.
NothingDone ==
  /\ store = runStore
  /\ ~setCalled
  /\ statusDoc.last_update_date = runWm
  /\ Count(msgs, "No new updates", "") = 1
  /\ Kinds(msgs) \cap {"Processing file", "Completed processing", "Failed to download"} = {}

SameDateScraped ==
  pc = "done" /\ current_update_date # None /\ FromIsoFormat(runWm) = current_update_date

DownloadedKeys ==
  UNION {KeysOf(FileRows(excel_links[i])) : i \in {j \in 1..Len(fetched) : fetched[j]}}

FailedAt(link) == {i \in 1..Len(fetched) : excel_links[i] = link /\ ~fetched[i]}

\* The run saw a date strictly later than the stored watermark, and of the several links
\* of the page some downloaded and some failed.
NewerDateRunDone ==
  /\ pc = "done"
  /\ setCalled
  /\ FromIsoFormat(runWm) # None
  /\ current_update_date > FromIsoFormat(runWm)
  /\ Len(excel_links) >= 2
  /\ Len(fetched) = Len(excel_links)
  /\ \E i, j \in 1..Len(fetched) : fetched[i] /\ ~fetched[j]

\* What C7 promises of such a run.
EndToEnd ==
  /\ statusDoc.last_update_date = IsoFormat(current_update_date)
  /\ BagCardinality(store) - BagCardinality(runStore)
       = Cardinality(DownloadedKeys \ StoreKeys(runStore))
  /\ \A i \in 1..Len(excel_links) :
       Count(msgs, "Failed to download", excel_links[i]) = Cardinality(FailedAt(excel_links[i]))
  /\ statusDoc.status = "idle"

C8_FailuresDoNotAbort ==
  /\ pc = "I124" => Len(rlog) = Len(data)
  /\ pc \in InsertPcs => Len(rlog) = ri - 1
  /\ \A j \in 1..Len(rlog) :
       ((\E i \in 1..(j - 1) : rlog[i].res \in Failures)
          /\ rlog[j].absent /\ rlog[j].res \notin Failures) =>
         /\ rlog[j].res = "inserted"
         /\ rlog[j].key \in StoreKeys(store)
         /\ rlog[j].key = Key(data[j])

\* The first record's lookup failed and the second record, with another key, was stored.
C8_Witness ==
  /\ pc = "I124"
  /\ Len(rlog) = 2
  /\ rlog[1].res = "lookup failed"
  /\ rlog[2].absent
  /\ rlog[2].res = "inserted"
  /\ rlog[1].key # rlog[2].key

\* C9: the value insert_into_appwrite returns is the number of documents the call
\* added to the store, whichever store calls failed.
C9_ReturnsInserted ==
  /\ pc \in InsertPcs => new_records = BagCardinality(store) - BagCardinality(insBefore)
  /\ lastCall.returned =>
       /\ lastCall.ret = BagCardinality(lastCall.after) - BagCardinality(lastCall.before)
       /\ new_records = lastCall.ret
       /\ store = lastCall.after

\* A call on two records has returned 1: one create failed, the other stored a document.
C9_Witness ==
  /\ lastCall.returned
  /\ Len(lastCall.log) = 2
  /\ lastCall.log[1].res = "create failed"
  /\ lastCall.log[2].res = "inserted"
  /\ lastCall.ret = 1

\* Line 194, update_status('idle'), has not been executed yet in the current run.
BeforeIdleWrite == InMain /\ pc \notin {"L195", "done"}

\* C10 as stated: once a run has started, the flag is 'running' while a run is under
\* way (up to its update_status('idle')) and 'idle' while none is.
C10_Original ==
  now >= 1 =>
    /\ BeforeIdleWrite => statusDoc.status = "running"
    /\ ~InMain => statusDoc.status = "idle"

\* C10 as amended: the same whenever the latest update_status call succeeded (a failed
\* call leaves the flag as it was).
C10_StatusTracksPhase ==
  (now >= 1 /\ statusOk) =>
    statusDoc.status = IF BeforeIdleWrite THEN "running" ELSE "idle"

\* A second run, about to write 'idle', with the flag at 'running'.
C10_Witness ==
  /\ pc = "L194"
  /\ statusOk
  /\ statusDoc.status = "running"
  /\ statusDoc.last_updated = MaxClock
  /\ store # EmptyBag
  /\ fetched # <<>>

\* C11 as stated: no run of main raises, whichever external calls fail: every run goes
\* on to its update_status('idle') and its 'Script finished running.' attempt.
C11_NoErrorIsFatal == pc # "raised"

\* The statements of main and insert_into_appwrite that make an external call other
\* than a send.
CallSites == {"idle", "L166", "L167", "L171", "L173", "L177", "L180", "L194", "I108", "I115"}

\* C12: of two runs of main that begin on the same store and Status Document and get
\* the same result from every external call other than a send, the second makes the
\* calls the first made and ends with the same stored documents, the same watermark and
\* the same status flag, whichever deliveries fail in either.
C12_NotificationIsNotControlFlow ==
  twin = "second" =>
    /\ pc \in CallSites =>
         \E e \in oracle : e.at = pc /\ e.li = li /\ e.ri = ri
    /\ pc = "done" =>
         /\ store = firstRun.store
         /\ statusDoc.last_update_date = firstRun.wm
         /\ statusDoc.status = firstRun.status

\* The second run of a pair has ended: it lost a delivery, the first lost none, and the
\* runs stored documents and moved the watermark.
C12_Witness ==
  /\ twin = "second"
  /\ pc = "done"
  /\ dropped
  /\ ~firstRun.dropped
  /\ store # runStore
  /\ statusDoc.last_update_date # runWm

\* C13: no step of a run of main or of an insert_into_appwrite call removes a stored
\* document or changes its fields: every document of the store is in the store after
\* the step, as many times as before.
C13_NeverUpdatedOrDeleted == [][store \sqsubseteq store']_vars

\* A call that began on a store holding a document for a routing code has processed a
\* record with that code and other field values: the document is as it was.
C13_Witness ==
  /\ lastCall.returned
  /\ \E i \in 1..Len(lastCall.log) :
       /\ lastCall.log[i].res = "exists"
       /\ lastCall.log[i].key \in StoreKeys(lastCall.before)
       /\ DocumentData(lastCall.data[i]) \notin BagToSet(store)
       /\ \E d \in BagToSet(lastCall.before) :
            d["IFSC"] = lastCall.log[i].key /\ CopiesIn(d, store) = 1

\* What get_excel_links is to return for each href tried: the download URL, or "" for an
\* anchor that is to be left out.
ExpectedUrl(href) ==
  CASE href = <<"a", ".xlsx">> -> "https://rbidocs.rbi.org.in/rdocs/Content/DOCs/a.xlsx"
    [] href = <<"/", "path", "/", "b", ".xlsx">> ->
         "https://rbidocs.rbi.org.in/rdocs/Content/DOCs/b.xlsx"
    [] href = <<"https:", "/", "/", "host", "/", "d", ".xlsx">> ->
         "https://rbidocs.rbi.org.in/rdocs/Content/DOCs/d.xlsx"
    [] href = <<".xlsx">> -> "https://rbidocs.rbi.org.in/rdocs/Content/DOCs/.xlsx"
    [] OTHER -> ""

\* The URLs expected for the anchors, in page order.
RECURSIVE ExpectedLinks(_)
ExpectedLinks(anchors) ==
  IF anchors = <<>> THEN <<>>
  ELSE (IF ExpectedUrl(Head(anchors)) = "" THEN <<>> ELSE <<ExpectedUrl(Head(anchors))>>)
         \o ExpectedLinks(Tail(anchors))

\* C14: get_excel_links returns, in page order, one URL for each anchor whose href ends
\* in '.xlsx' and none for any other anchor; each URL is the base path followed by the
\* last '/'-separated component of the href, relative or absolute; when the fetch fails
\* it returns the empty sequence.
C14_ExcelLinks ==
  pc = "linked" =>
    excel_links = IF "links" \in faults THEN <<>> ELSE ExpectedLinks(page.links)

\* The page holds an absolute and then a relative spreadsheet href, and the call
\* returned their two URLs in that order.
C14_Witness ==
  /\ pc = "linked"
  /\ Len(page.links) = 2
  /\ page.links[1] = <<"/", "path", "/", "b", ".xlsx">>
  /\ page.links[2] = <<"a", ".xlsx">>
  /\ excel_links = <<"https://rbidocs.rbi.org.in/rdocs/Content/DOCs/b.xlsx",
                     "https://rbidocs.rbi.org.in/rdocs/Content/DOCs/a.xlsx">>

\* The document of store st created from source record r under routing code key has
\* the nine fields, each a text: the cell's text, the digits of a number, 'nan' for an
\* empty cell, and the empty string for a column the record does not have.
StoredAsText(st, key, r) ==
  \E d \in BagToSet(st) :
    /\ d["IFSC"] = key
    /\ DOMAIN d = DocFields
    /\ \A f \in DocFields :
         /\ d[f] \in STRING
         /\ SourceKey(f) \notin DOMAIN r => d[f] = ""
         /\ (SourceKey(f) \in DOMAIN r /\ "s" \in DOMAIN r[SourceKey(f)]) =>
              d[f] = r[SourceKey(f)].s

\* C15: every document insert_into_appwrite creates carries all nine fields as text, a
\* field missing from the source record being the empty string; no stored document
\* lacks a field.
C15_NineTextFields ==
  /\ \A d \in BagToSet(store) : DOMAIN d = DocFields /\ \A f \in DocFields : d[f] \in STRING
  /\ lastCall.returned =>
       \A i \in 1..Len(lastCall.log) :
         lastCall.log[i].res = "inserted" =>
           StoredAsText(lastCall.after, lastCall.log[i].key, lastCall.data[i])

\* One call stored a record without PHONE and a record without IFSC: the documents hold
\* the empty string there, '22' for the dialing code and 'nan' for the empty cell.
C15_Witness ==
  /\ lastCall.returned
  /\ lastCall.ret = 2
  /\ "PHONE" \notin DOMAIN lastCall.data[1]
  /\ "IFSC" \notin DOMAIN lastCall.data[2]
  /\ \E d1, d2 \in BagToSet(store) :
       /\ d1["IFSC"] = "A" /\ d1["PHONE"] = "" /\ d1["STD_CODE"] = "22"
       /\ d2["IFSC"] = "" /\ d2["PHONE"] = "x" /\ d2["CITY2"] = "nan"

\* The log entries of `log` that report a create of a document with routing code k.
Creates(log, k) == {i \in 1..Len(log) : log[i].res = "inserted" /\ log[i].key = k}

\* The log of the first worker's invocation, under way or just returned.
FirstLog == IF lastCall.returned THEN lastCall.log ELSE rlog

\* C16: with two invocations of insert_into_appwrite at the same time the check and the
\* insert are two store calls, not one: when each invocation has created a document for
\* the same routing code (each after its own check saw no match), the store holds two
\* documents with that code; no code is stored more often than there are invocations
\* at the same time.
C16_CheckThenInsertRaces ==
  \A k \in StoreKeys(store) :
    /\ ListTotal(store, k) <= 2
    /\ (Creates(FirstLog, k) # {} /\ Creates(other.log, k) # {}) => ListTotal(store, k) = 2

\* Both invocations have gone through their batch: each created a document for the
\* routing code 'A', which was not stored when they began, and two are stored.
C16_Witness ==
  /\ pc = "I124"
  /\ other.pc = "I124"
  /\ "A" \notin StoreKeys(insBefore)
  /\ Creates(rlog, "A") # {}
  /\ Creates(other.log, "A") # {}
  /\ ListTotal(store, "A") = 2

Msg(kind, link) == [kind |-> kind, link |-> link]

\* The attempts between 'New update found' and 'All files processed.': for each link in
\* order, 'Processing file' and then one of 'Completed processing' and 'Failed to
\* download' for that link.
PerFile(q, links) ==
  /\ Len(q) = 2 * Len(links)
  /\ \A i \in 1..Len(links) :
       /\ q[2 * i - 1] = Msg("Processing file", links[i])
       /\ q[2 * i] \in {Msg("Completed processing", links[i]),
                        Msg("Failed to download", links[i])}

\* The attempts of a whole run, in order.
WellOrdered(q, links) ==
  /\ Len(q) >= 3
  /\ q[1] = Msg("Script started running.", "")
  /\ q[Len(q)] = Msg("Script finished running.", "")
  /\ \/ SubSeq(q, 2, Len(q) - 1) = <<Msg("No new updates", "")>>
     \/ /\ Len(q) >= 4
        /\ q[2] = Msg("New update found", "")
        /\ q[Len(q) - 1] = Msg("All files processed.", "")
        /\ PerFile(SubSeq(q, 3, Len(q) - 2), links)

\* C17: the notification attempts of a run of main that has reached its end are, in
\* order: 'Script started running.', then either a single 'No new updates', or 'New
\* update found', the per-file attempts for each link in order and 'All files
\* processed.', and last 'Script finished running.'; while a run is under way its first
\* attempt is 'Script started running.'.
C17_NotificationOrder ==
  /\ pc = "done" => WellOrdered(msgs, excel_links)
  /\ (InMain /\ msgs # <<>>) => msgs[1] = Msg("Script started running.", "")

\* A run over two links has ended: the first file was processed, the second failed to
\* download.
C17_Witness ==
  /\ pc = "done"
  /\ Len(excel_links) = 2
  /\ Len(msgs) = 8
  /\ msgs[4].kind = "Completed processing"
  /\ msgs[6].kind = "Failed to download"
  /\ msgs[4].link # msgs[6].link

\* A step that is a call of update_status (lines 163 and 194), of set_last_update_date
\* (line 171).
StatusCallStep == (pc = "idle" /\ pc' = "L164") \/ (pc = "L194" /\ pc' = "L195")

WatermarkCallStep == pc = "L171" /\ pc' = "L173"

\* C18: a call of update_status leaves last_update_date as it was and, when it succeeds,
\* sets status and last_updated; a call of set_last_update_date leaves status and
\* last_updated as they were and, when it succeeds, sets last_update_date; a call of
\* either that fails leaves the whole Status Document as it was.
C18_FlagAndWatermarkIndependent ==
  [][/\ StatusCallStep =>
          /\ statusDoc'.last_update_date = statusDoc.last_update_date
          /\ statusOk' => /\ statusDoc'.status = (IF pc = "idle" THEN "running" ELSE "idle")
                          /\ statusDoc'.last_updated = now'
          /\ ~statusOk' => statusDoc' = statusDoc
     /\ WatermarkCallStep =>
          /\ statusDoc'.status = statusDoc.status
          /\ statusDoc'.last_updated = statusDoc.last_updated
          /\ "watermark write" \notin faults' =>
               statusDoc'.last_update_date = IsoFormat(current_update_date)
          /\ "watermark write" \in faults' => statusDoc' = statusDoc]_vars

\* In one run update_status('running') stamped the document and left the watermark,
\* then set_last_update_date moved the watermark and left the flag and the stamp.
C18_Witness ==
  /\ pc = "L173"
  /\ statusOk
  /\ statusDoc.status = "running"
  /\ statusDoc.last_updated = now
  /\ now >= 1
  /\ "watermark write" \notin faults
  /\ runWm # NoWatermark
  /\ statusDoc.last_update_date # runWm

\* The positions in the batch of call c of the records with routing code k, the
\* documents of store st with that code, and the records call c reports as stored.
Idx(c, k) == {i \in 1..Len(c.data) : Key(c.data[i]) = k}

DocsOf(st, k) == {d \in BagToSet(st) : d["IFSC"] = k}

Stored(c) == {i \in 1..Len(c.log) : c.log[i].res = "inserted"}

First(S) == CHOOSE i \in S : \A j \in S : i <= j

\* C19 as stated: of several records of a batch with one routing code that was not
\* stored when the call began, the first is stored and the later ones are neither
\* stored nor counted.
C19_Original ==
  lastCall.returned =>
    \A k \in KeysOf(lastCall.data) :
      (k \notin StoreKeys(lastCall.before) /\ Cardinality(Idx(lastCall, k)) >= 2) =>
        /\ DocsOf(lastCall.after, k) = {DocumentData(lastCall.data[First(Idx(lastCall, k))])}
        /\ Stored(lastCall) \cap Idx(lastCall, k) = {First(Idx(lastCall, k))}
        /\ lastCall.ret = Cardinality(Stored(lastCall))

\* C19 as amended: of the records of a batch with one routing code that was not stored
\* when the call began, the first whose store calls do not fail is stored, once, and no
\* other is stored or counted (none is stored when every one fails); a record whose
\* code was stored before the call, by an earlier file of the run or an earlier call,
\* is neither stored nor counted and the stored document stays.
C19_FirstStoredWins ==
  lastCall.returned =>
    /\ lastCall.ret = Cardinality(Stored(lastCall))
    /\ \A k \in KeysOf(lastCall.data) :
         LET idx == Idx(lastCall, k)
             good == {i \in idx : lastCall.log[i].res \notin Failures}
         IN IF k \in StoreKeys(lastCall.before)
            THEN /\ DocsOf(lastCall.after, k) = DocsOf(lastCall.before, k)
                 /\ Stored(lastCall) \cap idx = {}
            ELSE IF good = {}
            THEN DocsOf(lastCall.after, k) = {}
            ELSE /\ DocsOf(lastCall.after, k) = {DocumentData(lastCall.data[First(good)])}
                 /\ CopiesIn(DocumentData(lastCall.data[First(good)]), lastCall.after) = 1
                 /\ Stored(lastCall) \cap idx = {First(good)}

\* A run that began on an empty store, every call succeeding, has ingested its second
\* file: the record with code 'A' of that file was discarded, as was the second such
\* record of the first file, and the stored document is the one of the first record of
\* the first file.
C19_Witness ==
  /\ pc = "L184"
  /\ li = 2
  /\ runStore = EmptyBag
  /\ faults = {}
  /\ lastCall.returned
  /\ lastCall.data = <<RowNoKey, RowA2>>
  /\ lastCall.log[2].res = "exists"
  /\ lastCall.ret = 1
  /\ DocsOf(store, "A") = {DocumentData(RowA1)}
  /\ DocumentData(RowA2) \notin BagToSet(store)

====
